---- MODULE Spec2Model ----
(***************************************************************************)
(* A model of the graph IR of my_ai_training (src/src/ir/ir.h): Nodes      *)
(* linked into a circular doubly-linked list anchored at the Graph's       *)
(* output sentinel, Values owned by the Node that produces them, and the   *)
(* Use records that mirror every input slot on the Value it refers to.     *)
(*                                                                         *)
(* Pointers are identifiers: a Node* is a member of NodeIds, a Value* a    *)
(* member of ValueIds, nullptr is NULL.  Slot indices and Use offsets are  *)
(* 0-based as in the source; a TLA+ sequence holds slot i at index i+1.    *)
(*                                                                         *)
(* Every method of the source is an operator from a heap record H (all the *)
(* objects' fields) to the heap after the call.  H.ok turns FALSE when an  *)
(* ONNX_ASSERT of the method fails; whatever the method wrote before the   *)
(* failing assertion stays written.  H.ret is the returned pointer.        *)
(***************************************************************************)
EXTENDS Integers, Sequences, FiniteSets, TLC

\* Bounds of the model.
MaxNodes == 3      \* ordinary (non-sentinel) nodes alive at once
MaxValues == 2     \* Values alive at once
MaxUses == 3       \* input slots in the whole graph
MaxElemType == 2   \* element type codes 0..MaxElemType
MaxDim == 2        \* the Dimensions of a shape are 1..MaxDim
MaxGuards == 3     \* ResourceGuard objects constructed in a run
MaxCallbacks == 2  \* cleanup callbacks passed to ResourceGuard constructors

\* One node may own every Value, and no more Values are created than can be
\* alive at once.
MaxOutputs == MaxValues
MaxUnique == MaxValues

\* nullptr, and the three sentinel nodes a Graph always holds.
NULL == 0
output_ == 1
input_ == 2
initializer_node_ == 3

\* The Graph the sentinels above belong to, and a second Graph object.  The
\* second Graph's own sentinels take no part in the edits of inputs and are
\* not represented.
TheGraph == 1
OtherGraph == 2
Graphs == {TheGraph, OtherGraph}

Ordinary == (initializer_node_ + 1)..(initializer_node_ + MaxNodes)
NodeIds == {output_, input_, initializer_node_} \cup Ordinary
\* Addresses for the Values of two nodes of full arity.
ValueIds == 1..(2 * MaxValues)

\* The element types, the shapes (of rank 0 and 1) and the names a caller
\* passes; NoType is the element type of a Value never given one, and the
\* empty string is a default-constructed std::string.
NoType == 0
ElemTypes == NoType..MaxElemType
Shapes == {<<>>} \cup {<<d>> : d \in 1..MaxDim}
Names == {"x", "y"}

\* The ResourceGuard objects and the callable targets given to them.  An
\* empty std::function (one that compares equal to nullptr) is NULL.
GuardIds == 1..MaxGuards
Callbacks == 1..MaxCallbacks

VARIABLES
  all_nodes,     \* Graph::all_nodes: the live Nodes (of graph_[n])
  all_values,    \* Graph::all_values: the live Values (of their node's graph)
  next_unique_,  \* Graph::next_unique_, of each Graph
  next,          \* Node::next_in_graph[kNextDirection]
  prev,          \* Node::next_in_graph[kPrevDirection]
  inputs_,       \* Node::inputs_
  outputs_,      \* Node::outputs_
  graph_,        \* Node::graph_
  uses,          \* Value::uses_in_current_graph_
  node_,         \* Value::node_
  offset_,       \* Value::offset_
  unique_,       \* Value::unique_
  elem_type_,    \* Value::elem_type_
  has_sizes_,    \* Value::has_sizes_
  sizes_,        \* Value::sizes_
  has_unique_name_,  \* Value::has_unique_name_
  unique_name_,  \* Value::unique_name_
  lifetime,      \* of each ResourceGuard: "unborn", "alive" or "destroyed"
  destructor_,   \* ResourceGuard::destructor_: its target, NULL when empty
  released_,     \* ResourceGuard::released_
  destructor_calls,  \* how often each callback has run
  terminated,    \* std::terminate has ended the program
  release_called,    \* history: release() was called on the guard
  invoked_by,    \* history: callback invocations made by the guard
  origin,        \* history: the unreleased guard, holding a callback, that
                 \* the guard was move-constructed from (NULL: none)
  last           \* the call made last, its arguments and its outcome

heapVars == <<all_nodes, all_values, next_unique_, next, prev, inputs_,
              outputs_, graph_, uses, node_, offset_, unique_, elem_type_,
              has_sizes_, sizes_, has_unique_name_, unique_name_>>
guardVars == <<lifetime, destructor_, released_, destructor_calls,
               terminated, release_called, invoked_by, origin>>
vars == <<all_nodes, all_values, next_unique_, next, prev, inputs_,
          outputs_, graph_, uses, node_, offset_, unique_, elem_type_,
          has_sizes_, sizes_, has_unique_name_, unique_name_, lifetime,
          destructor_, released_, destructor_calls, terminated,
          release_called, invoked_by, origin, last>>

\* The heap as one record, and the heap the variables hold next.
Cur ==
  [all_nodes |-> all_nodes, all_values |-> all_values,
   next_unique_ |-> next_unique_, next |-> next, prev |-> prev,
   inputs_ |-> inputs_, outputs_ |-> outputs_, graph_ |-> graph_,
   uses |-> uses, node_ |-> node_, offset_ |-> offset_, unique_ |-> unique_,
   elem_type_ |-> elem_type_, has_sizes_ |-> has_sizes_, sizes_ |-> sizes_,
   has_unique_name_ |-> has_unique_name_, unique_name_ |-> unique_name_,
   ok |-> TRUE, ret |-> NULL]

Commit(R) ==
  /\ all_nodes' = R.all_nodes
  /\ all_values' = R.all_values
  /\ next_unique_' = R.next_unique_
  /\ next' = R.next
  /\ prev' = R.prev
  /\ inputs_' = R.inputs_
  /\ outputs_' = R.outputs_
  /\ graph_' = R.graph_
  /\ uses' = R.uses
  /\ node_' = R.node_
  /\ offset_' = R.offset_
  /\ unique_' = R.unique_
  /\ elem_type_' = R.elem_type_
  /\ has_sizes_' = R.has_sizes_
  /\ sizes_' = R.sizes_
  /\ has_unique_name_' = R.has_unique_name_
  /\ unique_name_' = R.unique_name_

\* A failed ONNX_ASSERT.
Fail(H) == [H EXCEPT !.ok = FALSE, !.ret = NULL]

\* struct Use and its operator==.
Use(user, offset) == [user |-> user, offset |-> offset]

\* std::find: the index of the first element equal to x, 0 for end().
IndexOf(s, x) ==
  IF \E k \in 1..Len(s) : s[k] = x
  THEN CHOOSE k \in 1..Len(s) : s[k] = x /\ \A j \in 1..(k - 1) : s[j] # x
  ELSE 0

\* std::vector::erase of one element.
EraseAt(s, k) == SubSeq(s, 1, k - 1) \o SubSeq(s, k + 1, Len(s))

\* Value::owningGraph: the graph of the producing node.
owningGraph(H, v) == H.graph_[H.node_[v]]

\* Value::uses.
usesOf(H, v) == H.uses[v]

(***************************************************************************)
(* The node list.                                                          *)
(***************************************************************************)

\* The assertion inside Node::inGraphList, and its result.
inGraphListAssert(H, n) == H.next[n] # NULL \/ H.prev[n] = NULL
inGraphList(H, n) == H.next[n] # NULL

\* Fault: removeFromList without prev->next() = next.
removeFromList_noForwardLink(H, n) ==
  IF ~H.ok THEN H
  ELSE IF ~(inGraphListAssert(H, n) /\ inGraphList(H, n)) THEN Fail(H)
  ELSE LET nx == H.next[n]
           pv == H.prev[n]
           p1 == [H.prev EXCEPT ![nx] = pv]
       IN [H EXCEPT !.next = [H.next EXCEPT ![n] = NULL],
                    !.prev = [p1 EXCEPT ![n] = NULL],
                    !.ret = NULL]

\* Fault: removeFromList without next->prev() = prev.
removeFromList_noBackLink(H, n) ==
  IF ~H.ok THEN H
  ELSE IF ~(inGraphListAssert(H, n) /\ inGraphList(H, n)) THEN Fail(H)
  ELSE LET nx == H.next[n]
           pv == H.prev[n]
           n1 == [H.next EXCEPT ![pv] = nx]
       IN [H EXCEPT !.next = [n1 EXCEPT ![n] = NULL],
                    !.prev = [H.prev EXCEPT ![n] = NULL],
                    !.ret = NULL]

removeFromList(H, n) ==
  IF ~H.ok THEN H
  ELSE IF ~(inGraphListAssert(H, n) /\ inGraphList(H, n)) THEN Fail(H)
  ELSE LET nx == H.next[n]
           pv == H.prev[n]
           n1 == [H.next EXCEPT ![pv] = nx]
           p1 == [H.prev EXCEPT ![nx] = pv]
       IN [H EXCEPT !.next = [n1 EXCEPT ![n] = NULL],
                    !.prev = [p1 EXCEPT ![n] = NULL],
                    !.ret = NULL]

\* Fault: insertAfter without n->next() = this.
insertAfter_noForwardLink(H, x, n) ==
  IF ~H.ok THEN H
  ELSE IF ~(/\ n \in NodeIds
            /\ inGraphListAssert(H, x) /\ ~inGraphList(H, x)
            /\ inGraphListAssert(H, n) /\ inGraphList(H, n)) THEN Fail(H)
  ELSE LET nx == H.next[n]
           p1 == [H.prev EXCEPT ![x] = n]
           n2 == [H.next EXCEPT ![x] = nx]
           p2 == [p1 EXCEPT ![nx] = x]
       IN [H EXCEPT !.next = n2, !.prev = p2, !.ret = x]

\* Fault: insertAfter asserting only n->inGraphList().
insertAfter_noSelfCheck(H, x, n) ==
  IF ~H.ok THEN H
  ELSE IF ~(/\ n \in NodeIds
            /\ inGraphListAssert(H, n) /\ inGraphList(H, n)) THEN Fail(H)
  ELSE LET nx == H.next[n]
           n1 == [H.next EXCEPT ![n] = x]
           p1 == [H.prev EXCEPT ![x] = n]
           n2 == [n1 EXCEPT ![x] = nx]
           p2 == [p1 EXCEPT ![nx] = x]
       IN [H EXCEPT !.next = n2, !.prev = p2, !.ret = x]

\* Fault: insertAfter without next->prev() = this.
insertAfter_noBackLink(H, x, n) ==
  IF ~H.ok THEN H
  ELSE IF ~(/\ n \in NodeIds
            /\ inGraphListAssert(H, x) /\ ~inGraphList(H, x)
            /\ inGraphListAssert(H, n) /\ inGraphList(H, n)) THEN Fail(H)
  ELSE LET nx == H.next[n]
           n1 == [H.next EXCEPT ![n] = x]
           p1 == [H.prev EXCEPT ![x] = n]
           n2 == [n1 EXCEPT ![x] = nx]
       IN [H EXCEPT !.next = n2, !.prev = p1, !.ret = x]

insertAfter(H, x, n) ==
  IF ~H.ok THEN H
  ELSE IF ~(/\ n \in NodeIds
            /\ inGraphListAssert(H, x) /\ ~inGraphList(H, x)
            /\ inGraphListAssert(H, n) /\ inGraphList(H, n)) THEN Fail(H)
  ELSE LET nx == H.next[n]
           n1 == [H.next EXCEPT ![n] = x]
           p1 == [H.prev EXCEPT ![x] = n]
           n2 == [n1 EXCEPT ![x] = nx]
           p2 == [p1 EXCEPT ![nx] = x]
       IN [H EXCEPT !.next = n2, !.prev = p2, !.ret = x]

\* Fault: insertBefore inserting after n instead of after n->prev().
insertBefore_after(H, x, n) ==
  IF ~H.ok THEN H
  ELSE IF ~(inGraphListAssert(H, n) /\ inGraphList(H, n)) THEN Fail(H)
  ELSE insertAfter(H, x, n)

insertBefore(H, x, n) ==
  IF ~H.ok THEN H
  ELSE IF ~(inGraphListAssert(H, n) /\ inGraphList(H, n)) THEN Fail(H)
  ELSE insertAfter(H, x, H.prev[n])

moveAfter(H, x, n) ==
  LET R == insertAfter(removeFromList(H, x), x, n)
  IN [R EXCEPT !.ret = NULL]

\* Fault: moveBefore re-inserting this node after n.
moveBefore_after(H, x, n) ==
  LET R == insertAfter(removeFromList(H, x), x, n)
  IN [R EXCEPT !.ret = NULL]

moveBefore(H, x, n) ==
  LET R == insertBefore(removeFromList(H, x), x, n)
  IN [R EXCEPT !.ret = NULL]

(***************************************************************************)
(* Inputs and their Use records.                                           *)
(***************************************************************************)

\* Fault: findUseForInput matching the user alone, not the offset.
findUseForInput_byUser(H, n, i) ==
  IF H.inputs_[n][i + 1] = NULL THEN 0
  ELSE LET us == H.uses[H.inputs_[n][i + 1]]
       IN IF \E k \in 1..Len(us) : us[k].user = n
          THEN CHOOSE k \in 1..Len(us) :
                 us[k].user = n /\ \A j \in 1..(k - 1) : us[j].user # n
          ELSE 0

\* The index in the Use list of input i's Value of Use(this, i); 0 when the
\* assertion use_it != end() fails.
findUseForInput(H, n, i) ==
  IF H.inputs_[n][i + 1] = NULL THEN 0
  ELSE IndexOf(H.uses[H.inputs_[n][i + 1]], Use(n, i))

\* Fault: dropInput erasing the first Use of the Value, not the one found.
dropInput_firstUse(H, n, i) ==
  IF ~H.ok THEN H
  ELSE IF ~(i < Len(H.inputs_[n])) THEN Fail(H)
  ELSE LET input_node == H.inputs_[n][i + 1]
           use_it == findUseForInput(H, n, i)
       IN IF use_it = 0 THEN Fail(H)
          ELSE [H EXCEPT !.uses[input_node] = EraseAt(@, 1),
                         !.inputs_[n][i + 1] = NULL,
                         !.ret = input_node]

dropInput(H, n, i) ==
  IF ~H.ok THEN H
  ELSE IF ~(i < Len(H.inputs_[n])) THEN Fail(H)
  ELSE LET input_node == H.inputs_[n][i + 1]
           use_it == findUseForInput(H, n, i)
       IN IF use_it = 0 THEN Fail(H)
          ELSE [H EXCEPT !.uses[input_node] = EraseAt(@, use_it),
                         !.inputs_[n][i + 1] = NULL,
                         !.ret = input_node]

\* Fault: addInput recording the Use after the push_back, one slot too far.
addInput_offByOne(H, n, v) ==
  IF ~H.ok THEN H
  ELSE IF H.graph_[n] # owningGraph(H, v) THEN Fail(H)
  ELSE [H EXCEPT !.uses[v] = Append(@, Use(n, Len(H.inputs_[n]) + 1)),
                 !.inputs_[n] = Append(@, v),
                 !.ret = v]

addInput(H, n, v) ==
  IF ~H.ok THEN H
  ELSE IF H.graph_[n] # owningGraph(H, v) THEN Fail(H)
  ELSE [H EXCEPT !.uses[v] = Append(@, Use(n, Len(H.inputs_[n]))),
                 !.inputs_[n] = Append(@, v),
                 !.ret = v]

\* Fault: replaceInput checking the graph of newValue after dropInput.
replaceInput_lateAssert(H, n, i, newValue) ==
  IF ~H.ok THEN H
  ELSE LET D == dropInput(H, n, i)
       IN IF ~D.ok THEN D
          ELSE IF owningGraph(H, newValue) # H.graph_[n] THEN Fail(D)
          ELSE [D EXCEPT !.inputs_[n][i + 1] = newValue,
                         !.uses[newValue] = Append(@, Use(n, i)),
                         !.ret = D.ret]

replaceInput(H, n, i, newValue) ==
  IF ~H.ok THEN H
  ELSE IF owningGraph(H, newValue) # H.graph_[n] THEN Fail(H)
  ELSE LET D == dropInput(H, n, i)
       IN IF ~D.ok THEN D
          ELSE [D EXCEPT !.inputs_[n][i + 1] = newValue,
                         !.uses[newValue] = Append(@, Use(n, i)),
                         !.ret = D.ret]

\* Fault: the loop of replaceInputWith leaving after its first replacement.
RECURSIVE replaceInputWithFrom_firstOnly(_, _, _, _, _)
replaceInputWithFrom_firstOnly(H, n, from, to, i) ==
  IF ~H.ok \/ i >= Len(H.inputs_[n]) THEN H
  ELSE IF H.inputs_[n][i + 1] = from THEN replaceInput(H, n, i, to)
  ELSE replaceInputWithFrom_firstOnly(H, n, from, to, i + 1)

\* The loop of replaceInputWith from slot i on: it reads each slot when it
\* reaches it.
RECURSIVE replaceInputWithFrom(_, _, _, _, _)
replaceInputWithFrom(H, n, from, to, i) ==
  IF ~H.ok \/ i >= Len(H.inputs_[n]) THEN H
  ELSE replaceInputWithFrom(
         IF H.inputs_[n][i + 1] = from THEN replaceInput(H, n, i, to) ELSE H,
         n, from, to, i + 1)

replaceInputWith(H, n, from, to) ==
  IF ~H.ok THEN H
  ELSE IF owningGraph(H, from) # H.graph_[n] THEN Fail(H)
  ELSE IF owningGraph(H, to) # H.graph_[n] THEN Fail(H)
  ELSE LET R == replaceInputWithFrom(H, n, from, to, 0)
       IN IF R.ok THEN [R EXCEPT !.ret = NULL] ELSE R

\* Fault: the loop of removeInput finding each Use and leaving its offset.
RECURSIVE removeInputShift_none(_, _, _)
removeInputShift_none(H, n, j) ==
  IF ~H.ok \/ j >= Len(H.inputs_[n]) THEN H
  ELSE IF findUseForInput(H, n, j) = 0 THEN Fail(H)
  ELSE removeInputShift_none(H, n, j + 1)

\* The loop of removeInput from slot j on: it->offset--.
RECURSIVE removeInputShift(_, _, _)
removeInputShift(H, n, j) ==
  IF ~H.ok \/ j >= Len(H.inputs_[n]) THEN H
  ELSE LET it == findUseForInput(H, n, j)
           v == H.inputs_[n][j + 1]
       IN IF it = 0 THEN Fail(H)
          ELSE removeInputShift(
                 [H EXCEPT !.uses[v][it].offset = @ - 1], n, j + 1)

removeInput(H, n, i) ==
  LET D == dropInput(H, n, i)
      S == removeInputShift(D, n, i + 1)
  IN IF ~S.ok THEN S
     ELSE [S EXCEPT !.inputs_[n] = EraseAt(@, i + 1), !.ret = NULL]

\* A loop that drops every other slot only.
RECURSIVE removeAllInputsFrom_everyOther(_, _, _)
removeAllInputsFrom_everyOther(H, n, i) ==
  IF ~H.ok \/ i >= Len(H.inputs_[n]) THEN H
  ELSE removeAllInputsFrom_everyOther(dropInput(H, n, i), n, i + 2)

\* The loop of removeAllInputs from slot i on.
RECURSIVE removeAllInputsFrom(_, _, _)
removeAllInputsFrom(H, n, i) ==
  IF ~H.ok \/ i >= Len(H.inputs_[n]) THEN H
  ELSE removeAllInputsFrom(dropInput(H, n, i), n, i + 1)

removeAllInputs(H, n) ==
  LET R == removeAllInputsFrom(H, n, 0)
  IN IF ~R.ok THEN R
     ELSE [R EXCEPT !.inputs_[n] = <<>>, !.ret = NULL]

\* The iterations the three loops over inputs_ make, each loop run as the
\* code runs it and cut off after `fuel` iterations.  removeInput and
\* removeAllInputs read inputs_.size() again before every iteration;
\* replaceInputWith iterates over the slots present when it starts, which
\* are the same slots, as replaceInput does not resize inputs_.
RECURSIVE replaceInputWithSteps(_, _, _, _, _, _)
replaceInputWithSteps(H, n, from, to, i, fuel) ==
  IF ~H.ok \/ i >= Len(H.inputs_[n]) \/ fuel = 0 THEN 0
  ELSE 1 + replaceInputWithSteps(
             IF H.inputs_[n][i + 1] = from THEN replaceInput(H, n, i, to)
             ELSE H,
             n, from, to, i + 1, fuel - 1)

RECURSIVE removeInputSteps(_, _, _, _)
removeInputSteps(H, n, j, fuel) ==
  IF ~H.ok \/ j >= Len(H.inputs_[n]) \/ fuel = 0 THEN 0
  ELSE LET it == findUseForInput(H, n, j)
           v == H.inputs_[n][j + 1]
       IN 1 + removeInputSteps(
                IF it = 0 THEN Fail(H)
                ELSE [H EXCEPT !.uses[v][it].offset = @ - 1],
                n, j + 1, fuel - 1)

RECURSIVE removeAllInputsSteps(_, _, _, _)
removeAllInputsSteps(H, n, i, fuel) ==
  IF ~H.ok \/ i >= Len(H.inputs_[n]) \/ fuel = 0 THEN 0
  ELSE 1 + removeAllInputsSteps(dropInput(H, n, i), n, i + 1, fuel - 1)

(***************************************************************************)
(* Outputs.                                                                *)
(***************************************************************************)

\* operator new for a Value: the lowest free identifier.
newValue(H) == CHOOSE v \in ValueIds \ H.all_values :
                 \A u \in ValueIds \ H.all_values : v <= u

\* Fault: the constructor of Value reading next_unique_ without advancing
\* it.
ValueCtor_noIncrement(H, v, n, offset) ==
  [H EXCEPT !.node_[v] = n,
            !.offset_[v] = offset,
            !.unique_[v] = H.next_unique_[H.graph_[n]],
            !.uses[v] = <<>>,
            !.elem_type_[v] = NoType,
            !.has_sizes_[v] = FALSE,
            !.sizes_[v] = <<>>,
            !.has_unique_name_[v] = FALSE,
            !.unique_name_[v] = "",
            !.all_values = @ \cup {v}]

\* Value::Value(node, offset): the Value takes the graph's next unique id
\* and joins the graph's all_values; it has no shape and no explicit name.
ValueCtor(H, v, n, offset) ==
  [H EXCEPT !.node_[v] = n,
            !.offset_[v] = offset,
            !.unique_[v] = H.next_unique_[H.graph_[n]],
            !.uses[v] = <<>>,
            !.elem_type_[v] = NoType,
            !.has_sizes_[v] = FALSE,
            !.sizes_[v] = <<>>,
            !.has_unique_name_[v] = FALSE,
            !.unique_name_[v] = "",
            !.next_unique_[H.graph_[n]] = @ + 1,
            !.all_values = @ \cup {v}]

\* Fault: addOutput constructing the Value after the push_back, with the new
\* size as its offset.
addOutput_offByOne(H, n) ==
  IF ~H.ok THEN H
  ELSE LET v == newValue(H)
           C == ValueCtor(H, v, n, Len(H.outputs_[n]) + 1)
       IN [C EXCEPT !.outputs_[n] = Append(@, v), !.ret = v]

addOutput(H, n) ==
  IF ~H.ok THEN H
  ELSE LET v == newValue(H)
           C == ValueCtor(H, v, n, Len(H.outputs_[n]))
       IN [C EXCEPT !.outputs_[n] = Append(@, v), !.ret = v]

\* Graph::freeValue: the Value is deallocated and leaves all_values.
freeValue(H, v) ==
  [H EXCEPT !.all_values = @ \ {v},
            !.node_[v] = NULL,
            !.offset_[v] = 0,
            !.unique_[v] = 0,
            !.uses[v] = <<>>,
            !.elem_type_[v] = NoType,
            !.has_sizes_[v] = FALSE,
            !.sizes_[v] = <<>>,
            !.has_unique_name_[v] = FALSE,
            !.unique_name_[v] = ""]

\* The outputs of n from position j on (1-based) have their offset
\* decremented.
RECURSIVE eraseOutputShift(_, _, _)
eraseOutputShift(H, n, j) ==
  IF j > Len(H.outputs_[n]) THEN H
  ELSE eraseOutputShift([H EXCEPT !.offset_[H.outputs_[n][j]] = @ - 1],
                        n, j + 1)

\* Fault: eraseOutput leaving the offsets of the later outputs as they were.
eraseOutput_noRenumber(H, n, i) ==
  IF ~H.ok THEN H
  ELSE IF ~(i < Len(H.outputs_[n])) THEN Fail(H)
  ELSE IF usesOf(H, H.outputs_[n][i + 1]) # <<>> THEN Fail(H)
  ELSE LET v == H.outputs_[n][i + 1]
           E == [H EXCEPT !.outputs_[n] = EraseAt(@, i + 1)]
       IN [freeValue(E, v) EXCEPT !.ret = NULL]

\* Fault: eraseOutput decrementing the offset of every remaining output.
eraseOutput_renumberAll(H, n, i) ==
  IF ~H.ok THEN H
  ELSE IF ~(i < Len(H.outputs_[n])) THEN Fail(H)
  ELSE IF usesOf(H, H.outputs_[n][i + 1]) # <<>> THEN Fail(H)
  ELSE LET v == H.outputs_[n][i + 1]
           E == [H EXCEPT !.outputs_[n] = EraseAt(@, i + 1)]
       IN [eraseOutputShift(freeValue(E, v), n, 1) EXCEPT !.ret = NULL]

\* Node::eraseOutput(i): fatal when i is no output or output i has a
\* consumer; otherwise the slot is removed, the Value deallocated and the
\* later outputs renumbered.
eraseOutput(H, n, i) ==
  IF ~H.ok THEN H
  ELSE IF ~(i < Len(H.outputs_[n])) THEN Fail(H)
  ELSE IF usesOf(H, H.outputs_[n][i + 1]) # <<>> THEN Fail(H)
  ELSE LET v == H.outputs_[n][i + 1]
           E == [H EXCEPT !.outputs_[n] = EraseAt(@, i + 1)]
       IN [eraseOutputShift(freeValue(E, v), n, i + 1) EXCEPT !.ret = NULL]

\* Fault: hasUses returning from its first iteration.
hasUses_firstOnly(H, n) ==
  H.outputs_[n] # <<>> /\ usesOf(H, H.outputs_[n][1]) # <<>>

hasUses(H, n) ==
  \E k \in 1..Len(H.outputs_[n]) : usesOf(H, H.outputs_[n][k]) # <<>>

\* Value::replaceAllUsesWith(newValue): every Use on this Value, in order,
\* has its consumer's slot rewritten to newValue and is moved to the end of
\* newValue's Use list; this Value is left without consumers.
RECURSIVE replaceAllUsesFrom(_, _, _, _)
replaceAllUsesFrom(H, us, to, k) ==
  IF k > Len(us) THEN H
  ELSE replaceAllUsesFrom(
         [H EXCEPT !.inputs_[us[k].user][us[k].offset + 1] = to,
                   !.uses[to] = Append(@, us[k])],
         us, to, k + 1)

\* Fault: replaceAllUsesWith leaving the Use records on the old Value too.
Value_replaceAllUsesWith_noClear(H, v, to) ==
  IF ~H.ok THEN H
  ELSE IF owningGraph(H, v) # owningGraph(H, to) THEN Fail(H)
  ELSE LET R == replaceAllUsesFrom(H, H.uses[v], to, 1)
       IN [R EXCEPT !.ret = NULL]

Value_replaceAllUsesWith(H, v, to) ==
  IF ~H.ok THEN H
  ELSE IF owningGraph(H, v) # owningGraph(H, to) THEN Fail(H)
  ELSE LET R == replaceAllUsesFrom(H, H.uses[v], to, 1)
       IN [R EXCEPT !.uses[v] = <<>>, !.ret = NULL]

\* Fault: the loop of Node::replaceAllUsesWith pairing every output of this
\* node with the first output of n.
RECURSIVE Node_replaceAllUsesFrom_first(_, _, _, _)
Node_replaceAllUsesFrom_first(H, n, m, i) ==
  IF ~H.ok \/ i >= Len(H.outputs_[n]) THEN H
  ELSE Node_replaceAllUsesFrom_first(
         Value_replaceAllUsesWith(H, H.outputs_[n][i + 1], H.outputs_[m][1]),
         n, m, i + 1)

\* The loop of Node::replaceAllUsesWith from output i on.
RECURSIVE Node_replaceAllUsesFrom(_, _, _, _)
Node_replaceAllUsesFrom(H, n, m, i) ==
  IF ~H.ok \/ i >= Len(H.outputs_[n]) THEN H
  ELSE Node_replaceAllUsesFrom(
         Value_replaceAllUsesWith(H, H.outputs_[n][i + 1],
                                  H.outputs_[m][i + 1]),
         n, m, i + 1)

Node_replaceAllUsesWith(H, n, m) ==
  IF ~H.ok THEN H
  ELSE IF Len(H.outputs_[n]) # Len(H.outputs_[m]) THEN Fail(H)
  ELSE Node_replaceAllUsesFrom(H, n, m, 0)

(***************************************************************************)
(* The metadata of a Value.                                                *)
(***************************************************************************)

setElemType(H, v, elem_type) ==
  [H EXCEPT !.elem_type_[v] = elem_type, !.ret = v]

elemType(H, v) == H.elem_type_[v]

has_sizes(H, v) == H.has_sizes_[v]

setSizes(H, v, s) ==
  [H EXCEPT !.has_sizes_[v] = TRUE, !.sizes_[v] = s, !.ret = v]

wipeSizes(H, v) ==
  [H EXCEPT !.has_sizes_[v] = FALSE, !.sizes_[v] = <<>>, !.ret = v]

sizes(H, v) == H.sizes_[v]

has_unique_name(H, v) == H.has_unique_name_[v]

toVarName(i) == "_v_" \o ToString(i)

uniqueName(H, v) ==
  IF has_unique_name(H, v) THEN H.unique_name_[v]
  ELSE toVarName(H.unique_[v])

\* Value::setUniqueName(name, rename_captured): the explicit name is set.
\* The rename of captured references in nested graphs has no object here:
\* no node of the model holds a subgraph.
setUniqueName(H, v, name) ==
  [H EXCEPT !.has_unique_name_[v] = TRUE, !.unique_name_[v] = name,
            !.ret = v]

\* Value::copyMetadata(from), on the Value t.
copyMetadata(H, t, from) ==
  LET A == setElemType(H, t, elemType(H, from))
      B == setSizes(A, t, sizes(A, from))
      C == IF has_unique_name(B, from)
           THEN setUniqueName(B, t, uniqueName(B, from))
           ELSE B
  IN [C EXCEPT !.ret = t]

(***************************************************************************)
(* Creation and destruction.                                               *)
(***************************************************************************)

SeqRange(s) == {s[k] : k \in 1..Len(s)}

\* operator new for a Node: the first identifier above every live node (an
\* allocator that hands out increasing addresses).
TopNode(H) ==
  IF H.all_nodes \cap Ordinary = {} THEN initializer_node_
  ELSE CHOOSE n \in H.all_nodes \cap Ordinary :
         \A m \in H.all_nodes \cap Ordinary : m <= n
newNode(H) == TopNode(H) + 1

\* Graph::create of Graph g: a node of g, detached, without inputs or
\* outputs.
createIn(H, g) ==
  LET n == newNode(H)
  IN [H EXCEPT !.all_nodes = @ \cup {n},
               !.graph_[n] = g,
               !.next[n] = NULL,
               !.prev[n] = NULL,
               !.inputs_[n] = <<>>,
               !.outputs_[n] = <<>>,
               !.ret = n]

create(H) == createIn(H, TheGraph)

\* The node and its output Values are deallocated and leave the graph's
\* owned sets.
freeNode(H, n) ==
  LET outs == SeqRange(H.outputs_[n])
  IN [H EXCEPT !.all_nodes = @ \ {n},
               !.all_values = @ \ outs,
               !.graph_[n] = NULL,
               !.outputs_[n] = <<>>,
               !.node_ = [v \in ValueIds |-> IF v \in outs THEN NULL ELSE @[v]],
               !.offset_ = [v \in ValueIds |-> IF v \in outs THEN 0 ELSE @[v]],
               !.unique_ = [v \in ValueIds |-> IF v \in outs THEN 0 ELSE @[v]],
               !.elem_type_ =
                 [v \in ValueIds |-> IF v \in outs THEN NoType ELSE @[v]],
               !.has_sizes_ =
                 [v \in ValueIds |-> IF v \in outs THEN FALSE ELSE @[v]],
               !.sizes_ =
                 [v \in ValueIds |-> IF v \in outs THEN <<>> ELSE @[v]],
               !.has_unique_name_ =
                 [v \in ValueIds |-> IF v \in outs THEN FALSE ELSE @[v]],
               !.unique_name_ =
                 [v \in ValueIds |-> IF v \in outs THEN "" ELSE @[v]],
               !.ret = NULL]

\* Node::destroy: fatal when an output still has a consumer; otherwise the
\* node's Uses are unregistered, the node is unlinked and deallocated.
destroy(H, n) ==
  IF ~H.ok THEN H
  ELSE IF hasUses(H, n) THEN Fail(H)
  ELSE LET R == removeFromList(removeAllInputs(H, n), n)
       IN IF ~R.ok THEN R ELSE freeNode(R, n)

(***************************************************************************)
(* The order of the list.                                                  *)
(***************************************************************************)

\* The nodes met walking next links from n up to the output sentinel; the
\* walk gives up after `fuel` steps or on a null link.
RECURSIVE Walk(_, _, _)
Walk(H, n, fuel) ==
  IF n = NULL \/ n = output_ \/ fuel = 0 THEN <<>>
  ELSE <<n>> \o Walk(H, H.next[n], fuel - 1)

\* The list from the sentinel's successor to the sentinel, which ends it.
ListOrder(H) ==
  Append(Walk(H, H.next[output_], Cardinality(NodeIds)), output_)

\* Node::isBefore: comparison by position in the list.
isBefore(H, a, b) ==
  LET L == ListOrder(H)
  IN /\ IndexOf(L, a) # 0
     /\ IndexOf(L, b) # 0
     /\ IndexOf(L, a) < IndexOf(L, b)

(***************************************************************************)
(* The state after Graph's construction: the three sentinels, the output   *)
(* sentinel alone in the circular list.                                    *)
(***************************************************************************)
Sentinels == {output_, input_, initializer_node_}

NoCall == [op |-> "none", n |-> NULL, m |-> NULL, i |-> 0, v |-> NULL,
           w |-> NULL, ok |-> TRUE, ret |-> NULL]

Init ==
  /\ all_nodes = Sentinels
  /\ all_values = {}
  /\ next_unique_ = [g \in Graphs |-> 0]
  /\ next = [n \in NodeIds |-> IF n = output_ THEN output_ ELSE NULL]
  /\ prev = [n \in NodeIds |-> IF n = output_ THEN output_ ELSE NULL]
  /\ inputs_ = [n \in NodeIds |-> <<>>]
  /\ outputs_ = [n \in NodeIds |-> <<>>]
  /\ graph_ = [n \in NodeIds |-> IF n \in Sentinels THEN TheGraph ELSE NULL]
  /\ uses = [v \in ValueIds |-> <<>>]
  /\ node_ = [v \in ValueIds |-> NULL]
  /\ offset_ = [v \in ValueIds |-> 0]
  /\ unique_ = [v \in ValueIds |-> 0]
  /\ elem_type_ = [v \in ValueIds |-> NoType]
  /\ has_sizes_ = [v \in ValueIds |-> FALSE]
  /\ sizes_ = [v \in ValueIds |-> <<>>]
  /\ has_unique_name_ = [v \in ValueIds |-> FALSE]
  /\ unique_name_ = [v \in ValueIds |-> ""]
  /\ lifetime = [g \in GuardIds |-> "unborn"]
  /\ destructor_ = [g \in GuardIds |-> NULL]
  /\ released_ = [g \in GuardIds |-> FALSE]
  /\ destructor_calls = [c \in Callbacks |-> 0]
  /\ terminated = FALSE
  /\ release_called = [g \in GuardIds |-> FALSE]
  /\ invoked_by = [g \in GuardIds |-> 0]
  /\ origin = [g \in GuardIds |-> NULL]
  /\ last = NoCall

(***************************************************************************)
(* The calls a user of the graph makes.  Each is one whole method call on  *)
(* live objects.  rec is the set of methods whose calls `last` records     *)
(* (the call, its arguments and its outcome); any other call clears it.    *)
(***************************************************************************)
Call(op, n, m, i, v, w, R) ==
  [op |-> op, n |-> n, m |-> m, i |-> i, v |-> v, w |-> w,
   ok |-> R.ok, ret |-> R.ret]

Step(rec, R, c) ==
  /\ Commit(R)
  /\ last' = IF c.op \in rec THEN c ELSE NoCall
  /\ UNCHANGED guardVars

LiveOrdinary == all_nodes \cap Ordinary
Anchors == LiveOrdinary \cup {output_}
Detached == {n \in LiveOrdinary : ~inGraphList(Cur, n)}
Attached == {n \in LiveOrdinary : inGraphList(Cur, n)}
Slots(n) == 0..(Len(inputs_[n]) - 1)

TotalUses(H) ==
  LET RECURSIVE Sum(_)
      Sum(S) == IF S = {} THEN 0
                ELSE LET n == CHOOSE x \in S : TRUE
                     IN Len(H.inputs_[n]) + Sum(S \ {n})
  IN Sum(NodeIds)

Create(rec) ==
  /\ newNode(Cur) \in Ordinary
  /\ LET R == create(Cur)
     IN Step(rec, R, Call("create", R.ret, NULL, 0, NULL, NULL, R))

CreateIn(g, rec) ==
  /\ newNode(Cur) \in Ordinary
  /\ LET R == createIn(Cur, g)
     IN Step(rec, R, Call("create", R.ret, NULL, 0, NULL, NULL, R))

\* addOutput while fewer than `most` Values are alive and the Graph has
\* created fewer than `made`.
AddOutputUpTo(n, most, made, rec) ==
  /\ Len(outputs_[n]) < MaxOutputs
  /\ Cardinality(all_values) < most
  /\ next_unique_[graph_[n]] < made
  /\ LET R == addOutput(Cur, n)
     IN Step(rec, R, Call("addOutput", n, NULL, 0, NULL, NULL, R))

AddOutput(n, rec) == AddOutputUpTo(n, MaxValues, MaxUnique, rec)

EraseOutput(n, i, rec) ==
  LET R == eraseOutput(Cur, n, i)
  IN Step(rec, R, Call("eraseOutput", n, NULL, i, NULL, NULL, R))

AddInput(n, v, rec) ==
  /\ TotalUses(Cur) < MaxUses
  /\ LET R == addInput(Cur, n, v)
     IN Step(rec, R, Call("addInput", n, NULL, 0, v, NULL, R))

ReplaceInput(n, i, w, rec) ==
  LET R == replaceInput(Cur, n, i, w)
  IN Step(rec, R, Call("replaceInput", n, NULL, i, NULL, w, R))

ReplaceInputWith(n, v, w, rec) ==
  LET R == replaceInputWith(Cur, n, v, w)
  IN Step(rec, R, Call("replaceInputWith", n, NULL, 0, v, w, R))

RemoveInput(n, i, rec) ==
  LET R == removeInput(Cur, n, i)
  IN Step(rec, R, Call("removeInput", n, NULL, i, NULL, NULL, R))

RemoveAllInputs(n, rec) ==
  LET R == removeAllInputs(Cur, n)
  IN Step(rec, R, Call("removeAllInputs", n, NULL, 0, NULL, NULL, R))

ValueReplaceAllUsesWith(v, w, rec) ==
  LET R == Value_replaceAllUsesWith(Cur, v, w)
  IN Step(rec, R, Call("Value_replaceAllUsesWith", NULL, NULL, 0, v, w, R))

NodeReplaceAllUsesWith(n, m, rec) ==
  LET R == Node_replaceAllUsesWith(Cur, n, m)
  IN Step(rec, R, Call("Node_replaceAllUsesWith", n, m, 0, NULL, NULL, R))

Destroy(n, rec) ==
  LET R == destroy(Cur, n)
  IN Step(rec, R, Call("destroy", n, NULL, 0, NULL, NULL, R))

InsertAfter(x, n, rec) ==
  LET R == insertAfter(Cur, x, n)
  IN Step(rec, R, Call("insertAfter", x, n, 0, NULL, NULL, R))

InsertBefore(x, n, rec) ==
  LET R == insertBefore(Cur, x, n)
  IN Step(rec, R, Call("insertBefore", x, n, 0, NULL, NULL, R))

MoveAfter(x, n, rec) ==
  LET R == moveAfter(Cur, x, n)
  IN Step(rec, R, Call("moveAfter", x, n, 0, NULL, NULL, R))

MoveBefore(x, n, rec) ==
  LET R == moveBefore(Cur, x, n)
  IN Step(rec, R, Call("moveBefore", x, n, 0, NULL, NULL, R))

\* The edits of inputs, outputs and Use records on a graph whose nodes are
\* appended to the list one after the other.  Slot indices are valid slots,
\* destroy is called on attached nodes (with or without consumers), and
\* replaceAllUsesWith on two different objects.
Wiring(rec) ==
  \/ Detached = {} /\ Create(rec)
  \/ \E x \in Detached : InsertBefore(x, output_, rec)
  \/ \E n \in LiveOrdinary : AddOutput(n, rec)
  \/ \E n \in LiveOrdinary, v \in all_values : AddInput(n, v, rec)
  \/ \E n \in LiveOrdinary, w \in all_values :
       \E i \in Slots(n) : ReplaceInput(n, i, w, rec)
  \/ \E n \in LiveOrdinary, v \in all_values, w \in all_values :
       ReplaceInputWith(n, v, w, rec)
  \/ \E n \in LiveOrdinary : \E i \in Slots(n) : RemoveInput(n, i, rec)
  \/ \E n \in LiveOrdinary : RemoveAllInputs(n, rec)
  \/ \E v \in all_values, w \in all_values :
       v # w /\ ValueReplaceAllUsesWith(v, w, rec)
  \/ \E n \in LiveOrdinary, m \in LiveOrdinary :
       n # m /\ NodeReplaceAllUsesWith(n, m, rec)
  \/ \E n \in Attached : Destroy(n, rec)

\* The wiring edits, Value::replaceAllUsesWith and destroy recorded.
Next == Wiring({"Value_replaceAllUsesWith", "destroy"})

Spec == Init /\ [][Next]_vars

\* The wiring edits, replaceInput and removeInput recorded.
NextInputs == Wiring({"replaceInput", "removeInput"})

SpecInputs == Init /\ [][NextInputs]_vars

\* The wiring edits, removeAllInputs recorded.
NextRemoveAll == Wiring({"removeAllInputs"})

SpecRemoveAll == Init /\ [][NextRemoveAll]_vars

\* The calls that write the metadata of the newest node's outputs, on a
\* graph that grows by create and addOutput and shrinks by eraseOutput.
SetElemType(v, elem_type, rec) ==
  LET R == setElemType(Cur, v, elem_type)
  IN Step(rec, R, Call("setElemType", NULL, NULL, elem_type, v, NULL, R))

SetSizes(v, s, rec) ==
  LET R == setSizes(Cur, v, s)
  IN Step(rec, R, Call("setSizes", NULL, NULL, Len(s), v, NULL, R))

WipeSizes(v, rec) ==
  LET R == wipeSizes(Cur, v)
  IN Step(rec, R, Call("wipeSizes", NULL, NULL, 0, v, NULL, R))

SetUniqueName(v, name, rec) ==
  LET R == setUniqueName(Cur, v, name)
  IN Step(rec, R, Call("setUniqueName", NULL, NULL, 0, v, NULL, R))

CopyMetadata(t, from, rec) ==
  LET R == copyMetadata(Cur, t, from)
  IN Step(rec, R, Call("copyMetadata", NULL, NULL, 0, t, from, R))

MetaEdits(rec) ==
  \/ LiveOrdinary = {} /\ Create(rec)
  \/ \E n \in LiveOrdinary : AddOutput(n, rec)
  \/ \E n \in LiveOrdinary : \E i \in 0..(Len(outputs_[n]) - 1) :
       EraseOutput(n, i, rec)
  \/ \E v \in all_values, t \in ElemTypes : SetElemType(v, t, rec)
  \/ \E v \in all_values, s \in Shapes : SetSizes(v, s, rec)
  \/ \E v \in all_values : WipeSizes(v, rec)
  \/ \E v \in all_values, name \in Names : SetUniqueName(v, name, rec)
  \/ \E t \in all_values, from \in all_values : CopyMetadata(t, from, rec)

NextMeta == MetaEdits({"copyMetadata"})

SpecMeta == Init /\ [][NextMeta]_vars

(***************************************************************************)
(* ResourceGuard.  A guard is constructed with a callable target; a        *)
(* moved-from std::function is in a valid but unspecified state, here      *)
(* either empty or still holding its target.  Calling an empty             *)
(* std::function throws std::bad_function_call, and an exception leaving   *)
(* a destructor calls std::terminate.                                      *)
(***************************************************************************)

\* The states std::function's move may leave the source in.
MovedFrom(target) == {NULL, target}

\* explicit ResourceGuard(std::function<void()> destructor)
GuardCtor(g, c) ==
  /\ ~terminated /\ lifetime[g] = "unborn"
  /\ lifetime' = [lifetime EXCEPT ![g] = "alive"]
  /\ destructor_' = [destructor_ EXCEPT ![g] = c]
  /\ released_' = [released_ EXCEPT ![g] = FALSE]
  /\ UNCHANGED <<destructor_calls, terminated, release_called, invoked_by>>
  /\ UNCHANGED <<heapVars, last, origin>>

\* ResourceGuard(ResourceGuard&& other) = default: both members are
\* move-constructed, and the move of a bool copies it.
GuardMoveCtor(g, other) ==
  /\ ~terminated /\ lifetime[g] = "unborn" /\ lifetime[other] = "alive"
  /\ lifetime' = [lifetime EXCEPT ![g] = "alive"]
  /\ \E left \in MovedFrom(destructor_[other]) :
       destructor_' = [destructor_ EXCEPT ![g] = destructor_[other],
                                          ![other] = left]
  /\ released_' = [released_ EXCEPT ![g] = released_[other]]
  /\ UNCHANGED <<destructor_calls, terminated, release_called, invoked_by>>
  /\ origin' = [origin EXCEPT ![g] =
                  IF ~released_[other] /\ destructor_[other] # NULL
                  THEN other ELSE NULL]
  /\ UNCHANGED <<heapVars, last>>

\* ResourceGuard& operator=(ResourceGuard&& other) = default, on two
\* different guards: the old target of g is dropped without a call.
GuardMoveAssign(g, other) ==
  /\ ~terminated /\ g # other
  /\ lifetime[g] = "alive" /\ lifetime[other] = "alive"
  /\ \E left \in MovedFrom(destructor_[other]) :
       destructor_' = [destructor_ EXCEPT ![g] = destructor_[other],
                                          ![other] = left]
  /\ released_' = [released_ EXCEPT ![g] = released_[other]]
  /\ UNCHANGED <<lifetime, destructor_calls, terminated, release_called,
                 invoked_by>>
  /\ UNCHANGED <<heapVars, last, origin>>

\* void release()
GuardRelease(g) ==
  /\ ~terminated /\ lifetime[g] = "alive"
  /\ released_' = [released_ EXCEPT ![g] = TRUE]
  /\ release_called' = [release_called EXCEPT ![g] = TRUE]
  /\ UNCHANGED <<lifetime, destructor_, destructor_calls, terminated,
                 invoked_by>>
  /\ UNCHANGED <<heapVars, last, origin>>

\* ~ResourceGuard(): if (!released_) destructor_();
GuardDtor(g) ==
  /\ ~terminated /\ lifetime[g] = "alive"
  /\ lifetime' = [lifetime EXCEPT ![g] = "destroyed"]
  /\ IF released_[g]
     THEN UNCHANGED <<destructor_calls, terminated, invoked_by>>
     ELSE IF destructor_[g] = NULL
     THEN terminated' = TRUE /\ UNCHANGED <<destructor_calls, invoked_by>>
     ELSE /\ destructor_calls' =
               [destructor_calls EXCEPT ![destructor_[g]] = @ + 1]
          /\ invoked_by' = [invoked_by EXCEPT ![g] = @ + 1]
          /\ UNCHANGED terminated
  /\ UNCHANGED <<destructor_, released_, release_called>>
  /\ UNCHANGED <<heapVars, last, origin>>

NextGuards ==
  \/ \E g \in GuardIds, c \in Callbacks : GuardCtor(g, c)
  \/ \E g \in GuardIds, other \in GuardIds : GuardMoveCtor(g, other)
  \/ \E g \in GuardIds, other \in GuardIds : GuardMoveAssign(g, other)
  \/ \E g \in GuardIds : GuardRelease(g)
  \/ \E g \in GuardIds : GuardDtor(g)

SpecGuards == Init /\ [][NextGuards]_vars

\* Guards that are constructed, move-constructed, released and destroyed,
\* and never assigned to.
NextMoveCtor ==
  \/ \E g \in GuardIds, c \in Callbacks : GuardCtor(g, c)
  \/ \E g \in GuardIds, other \in GuardIds : GuardMoveCtor(g, other)
  \/ \E g \in GuardIds : GuardRelease(g)
  \/ \E g \in GuardIds : GuardDtor(g)

SpecMoveCtor == Init /\ [][NextMoveCtor]_vars

\* The wiring edits, replaceInputWith recorded.
NextReplaceWith == Wiring({"replaceInputWith"})

SpecReplaceWith == Init /\ [][NextReplaceWith]_vars

\* Every edit, valid or not: a slot index ranges over the node's slots and
\* the first index past them, a node is inserted or moved next to any live
\* node.  destroy is called on attached nodes, and replaceAllUsesWith on
\* two different objects.
AnyEdit(rec) ==
  \/ Create(rec)
  \/ \E x \in LiveOrdinary, n \in Anchors : InsertAfter(x, n, rec)
  \/ \E x \in LiveOrdinary, n \in Anchors : InsertBefore(x, n, rec)
  \/ \E x \in LiveOrdinary, n \in Anchors : MoveAfter(x, n, rec)
  \/ \E x \in LiveOrdinary, n \in Anchors : MoveBefore(x, n, rec)
  \/ \E n \in LiveOrdinary : AddOutput(n, rec)
  \/ \E n \in LiveOrdinary, v \in all_values : AddInput(n, v, rec)
  \/ \E n \in LiveOrdinary, w \in all_values :
       \E i \in 0..Len(inputs_[n]) : ReplaceInput(n, i, w, rec)
  \/ \E n \in LiveOrdinary, v \in all_values, w \in all_values :
       ReplaceInputWith(n, v, w, rec)
  \/ \E n \in LiveOrdinary :
       \E i \in 0..Len(inputs_[n]) : RemoveInput(n, i, rec)
  \/ \E n \in LiveOrdinary : RemoveAllInputs(n, rec)
  \/ \E v \in all_values, w \in all_values :
       v # w /\ ValueReplaceAllUsesWith(v, w, rec)
  \/ \E n \in LiveOrdinary, m \in LiveOrdinary :
       n # m /\ NodeReplaceAllUsesWith(n, m, rec)
  \/ \E n \in Attached : Destroy(n, rec)

\* Every edit, none recorded.
NextAny == AnyEdit({})

SpecAny == Init /\ [][NextAny]_vars

\* The edits of the list alone, valid or not, on nodes without inputs and
\* outputs.
ListEdits(rec) ==
  \/ Create(rec)
  \/ \E x \in LiveOrdinary, n \in Anchors : InsertAfter(x, n, rec)
  \/ \E x \in LiveOrdinary, n \in Anchors : InsertBefore(x, n, rec)
  \/ \E x \in LiveOrdinary, n \in Anchors : MoveAfter(x, n, rec)
  \/ \E x \in LiveOrdinary, n \in Anchors : MoveBefore(x, n, rec)
  \/ \E n \in Attached : Destroy(n, rec)

\* The list edits, the insertions recorded.
NextList == ListEdits({"insertAfter", "insertBefore"})

SpecList == Init /\ [][NextList]_vars

\* The list edits that succeed, on every live node, the sentinels included:
\* a sentinel too may be inserted or moved.  destroy is called on ordinary
\* nodes.
LinkEdits(rec) ==
  \/ Create(rec)
  \/ \E x \in all_nodes, n \in all_nodes :
       insertAfter(Cur, x, n).ok /\ InsertAfter(x, n, rec)
  \/ \E x \in all_nodes, n \in all_nodes :
       insertBefore(Cur, x, n).ok /\ InsertBefore(x, n, rec)
  \/ \E x \in all_nodes, n \in all_nodes :
       moveAfter(Cur, x, n).ok /\ MoveAfter(x, n, rec)
  \/ \E x \in all_nodes, n \in all_nodes :
       moveBefore(Cur, x, n).ok /\ MoveBefore(x, n, rec)
  \/ \E n \in LiveOrdinary : destroy(Cur, n).ok /\ Destroy(n, rec)

\* The successful list edits, the moves and destroy recorded.
NextLinks == LinkEdits({"moveAfter", "moveBefore", "destroy"})

SpecLinks == Init /\ [][NextLinks]_vars

\* Two Graphs: nodes are created in either, and every edit of inputs is
\* tried with every live node and Value, of the same Graph or not.
GraphEdits(rec) ==
  \/ \E g \in Graphs : CreateIn(g, rec)
  \/ \E n \in LiveOrdinary : AddOutput(n, rec)
  \/ \E n \in LiveOrdinary, v \in all_values : AddInput(n, v, rec)
  \/ \E n \in LiveOrdinary, w \in all_values :
       \E i \in Slots(n) : ReplaceInput(n, i, w, rec)
  \/ \E n \in LiveOrdinary, v \in all_values, w \in all_values :
       ReplaceInputWith(n, v, w, rec)
  \/ \E n \in LiveOrdinary : \E i \in Slots(n) : RemoveInput(n, i, rec)

\* The edits across two Graphs, the calls that take a Value recorded.
NextGraphs == GraphEdits({"addInput", "replaceInput", "replaceInputWith"})

SpecGraphs == Init /\ [][NextGraphs]_vars

\* Nodes of up to MaxOutputs outputs each, built one after the other (the
\* newest node is the one that takes outputs and inputs), and one node's
\* uses replaced by another's.
PairEdits(rec) ==
  \/ Create(rec)
  \/ /\ LiveOrdinary # {}
     /\ AddOutputUpTo(TopNode(Cur), 2 * MaxValues, 2 * MaxValues, rec)
  \/ \E v \in all_values :
       LiveOrdinary # {} /\ AddInput(TopNode(Cur), v, rec)
  \/ \E n \in LiveOrdinary, m \in LiveOrdinary :
       n # m /\ NodeReplaceAllUsesWith(n, m, rec)

\* The edits of pairs of nodes, Node::replaceAllUsesWith recorded.
NextPairs == PairEdits({"Node_replaceAllUsesWith"})

SpecPairs == Init /\ [][NextPairs]_vars

\* The life of Values: a graph built by appending nodes, whose outputs are
\* added, consumed, replaced and erased, and whose nodes are destroyed.  A
\* Graph creates more Values than are alive at once.
OutputEdits(rec) ==
  \/ Detached = {} /\ Create(rec)
  \/ \E x \in Detached : InsertBefore(x, output_, rec)
  \/ \E n \in LiveOrdinary :
       AddOutputUpTo(n, MaxValues, MaxValues + 1, rec)
  \/ \E n \in LiveOrdinary :
       \E i \in 0..(Len(outputs_[n]) - 1) : EraseOutput(n, i, rec)
  \/ \E n \in LiveOrdinary, v \in all_values : AddInput(n, v, rec)
  \/ \E v \in all_values, w \in all_values :
       v # w /\ ValueReplaceAllUsesWith(v, w, rec)
  \/ \E n \in Attached : Destroy(n, rec)

\* The life of Values, eraseOutput recorded.
NextOutputs == OutputEdits({"eraseOutput"})

SpecOutputs == Init /\ [][NextOutputs]_vars

\* A wired graph whose nodes are moved: nodes are appended, the newest
\* node is given outputs and inputs, and any live node is moved next to any
\* live node or the sentinel.
MoveEdits(rec) ==
  \/ Detached = {} /\ Create(rec)
  \/ \E x \in Detached : InsertBefore(x, output_, rec)
  \/ LiveOrdinary # {} /\ AddOutput(TopNode(Cur), rec)
  \/ \E v \in all_values :
       LiveOrdinary # {} /\ AddInput(TopNode(Cur), v, rec)
  \/ \E x \in LiveOrdinary, n \in Anchors : MoveAfter(x, n, rec)
  \/ \E x \in LiveOrdinary, n \in Anchors : MoveBefore(x, n, rec)

\* The moves of a wired graph, recorded.
NextMove == MoveEdits({"moveAfter", "moveBefore"})

SpecMove == Init /\ [][NextMove]_vars

(***************************************************************************)
(* Callers that respect the ordering contract of Note [Topological         *)
(* invariant]: every call is valid, a Value is only supplied to an         *)
(* attached consumer when its producer is attached and earlier in the      *)
(* list, and a node is only placed after the producers of its inputs and   *)
(* before the attached consumers of its outputs.  What the caller checks   *)
(* is the list as it is before the call.                                   *)
(***************************************************************************)
Pos(H, n) == IndexOf(ListOrder(H), n)

Precedes(H, a, b) == Pos(H, a) # 0 /\ Pos(H, b) # 0 /\ Pos(H, a) < Pos(H, b)

Producers(H, x) == {H.node_[v] : v \in SeqRange(H.inputs_[x])}

Consumers(H, x) ==
  {u.user : u \in UNION {SeqRange(H.uses[v]) : v \in SeqRange(H.outputs_[x])}}

\* Value v may become an input of node n.
MaySupply(H, v, n) == ~inGraphList(H, n) \/ Precedes(H, H.node_[v], n)

\* The position x takes when placed right after a: the output sentinel is
\* the head of the list as well as its end, so what is placed after it
\* comes first.
PosAfter(H, a) == IF a = output_ THEN 0 ELSE Pos(H, a)

\* Node x may be placed right after attached node a.
MayPlaceAfter(H, x, a) ==
  /\ x # a /\ inGraphList(H, a)
  /\ \A p \in Producers(H, x) :
       p # x /\ Pos(H, p) # 0 /\ Pos(H, p) <= PosAfter(H, a)
  /\ \A c \in Consumers(H, x) :
       c # x /\ (inGraphList(H, c) => Pos(H, c) > PosAfter(H, a))

\* Node x may be placed right before attached node b.
MayPlaceBefore(H, x, b) ==
  /\ x # b /\ inGraphList(H, b)
  /\ \A p \in Producers(H, x) : p # x /\ Precedes(H, p, b)
  /\ \A c \in Consumers(H, x) :
       c # x /\ (inGraphList(H, c) => (c = b \/ Precedes(H, b, c)))

NextTopo ==
  \/ Create({})
  \/ \E x \in Detached, n \in Anchors :
       MayPlaceAfter(Cur, x, n) /\ InsertAfter(x, n, {})
  \/ \E x \in Detached, n \in Anchors :
       MayPlaceBefore(Cur, x, n) /\ InsertBefore(x, n, {})
  \/ \E x \in Attached, n \in Anchors :
       MayPlaceAfter(Cur, x, n) /\ MoveAfter(x, n, {})
  \/ \E x \in Attached, n \in Anchors :
       MayPlaceBefore(Cur, x, n) /\ MoveBefore(x, n, {})
  \/ \E n \in LiveOrdinary : AddOutput(n, {})
  \/ \E n \in LiveOrdinary, v \in all_values :
       MaySupply(Cur, v, n) /\ AddInput(n, v, {})
  \/ \E n \in LiveOrdinary, w \in all_values :
       \E i \in Slots(n) :
         MaySupply(Cur, w, n) /\ ReplaceInput(n, i, w, {})
  \/ \E n \in LiveOrdinary, v \in all_values, w \in all_values :
       MaySupply(Cur, w, n) /\ ReplaceInputWith(n, v, w, {})
  \/ \E n \in LiveOrdinary : \E i \in Slots(n) : RemoveInput(n, i, {})
  \/ \E n \in LiveOrdinary : RemoveAllInputs(n, {})
  \/ \E v \in all_values, w \in all_values :
       /\ v # w
       /\ \A u \in SeqRange(uses[v]) : MaySupply(Cur, w, u.user)
       /\ ValueReplaceAllUsesWith(v, w, {})
  \/ \E n \in LiveOrdinary, m \in LiveOrdinary :
       /\ n # m
       /\ Len(outputs_[n]) = Len(outputs_[m])
       /\ \A k \in 1..Len(outputs_[n]) :
            \A u \in SeqRange(uses[outputs_[n][k]]) :
              MaySupply(Cur, outputs_[m][k], u.user)
       /\ NodeReplaceAllUsesWith(n, m, {})
  \/ \E n \in Attached : ~hasUses(Cur, n) /\ Destroy(n, {})

SpecTopo == Init /\ [][NextTopo]_vars

(***************************************************************************)
(* Properties.                                                             *)
(***************************************************************************)

\* The input slots of live nodes that refer to Value v, as Use records.
SlotsReferringTo(v) ==
  {u \in UNION {{Use(n, i) : i \in Slots(n)} : n \in all_nodes} :
     inputs_[u.user][u.offset + 1] = v}

NoDuplicates(s) == \A j, k \in 1..Len(s) : s[j] = s[k] => j = k

C2_Step ==
  LET v == last'.v
      w == last'.w
  IN (last'.op = "Value_replaceAllUsesWith" /\ last'.ok) =>
       /\ uses'[v] = <<>>
       /\ uses'[w] = uses[w] \o uses[v]
       /\ \A x \in ValueIds \ {v, w} : uses'[x] = uses[x]
       /\ \A n \in NodeIds :
            /\ Len(inputs_'[n]) = Len(inputs_[n])
            /\ \A i \in Slots(n) :
                 inputs_'[n][i + 1] =
                   IF Use(n, i) \in SeqRange(uses[v]) THEN w
                   ELSE inputs_[n][i + 1]

C2_ReplaceAllUses == [][C2_Step]_vars

\* The scenario B = f(a), C = g(a, a), a.replaceAllUsesWith(a2), after the
\* call: a has no consumer, a2 has (B,0), (C,0), (C,1).
C2_Witness ==
  /\ last.op = "Value_replaceAllUsesWith" /\ last.ok
  /\ \E A, B, C \in LiveOrdinary :
       /\ A # B /\ A # C /\ B # C
       /\ node_[last.v] = A /\ node_[last.w] = A
       /\ inputs_[B] = <<last.w>>
       /\ inputs_[C] = <<last.w, last.w>>
       /\ uses[last.v] = <<>>
       /\ uses[last.w] = <<Use(B, 0), Use(C, 0), Use(C, 1)>>

\* C3: when callers respect the ordering contract, the producer of every
\* input of an attached node is attached and earlier in the list.
C3_TopologicalOrder ==
  \A n \in Attached :
    \A v \in SeqRange(inputs_[n]) : Precedes(Cur, node_[v], n)

\* Three attached nodes in a chain, the list not in the order of creation.
C3_Witness ==
  \E a, b, c \in Attached :
    /\ a > b
    /\ outputs_[a] # <<>> /\ outputs_[b] # <<>>
    /\ inputs_[b] = <<outputs_[a][1]>>
    /\ inputs_[c] = <<outputs_[a][1], outputs_[b][1]>>
    /\ C3_TopologicalOrder

\* The sequence s without the elements equal to x, and without n.
Without(s, x) == SelectSeq(s, LAMBDA e : e # x)
UsesNotBy(s, n) == SelectSeq(s, LAMBDA u : u.user # n)

\* C4: destroy() on an attached node without consumers unregisters the
\* node's Uses, unlinks the node so that its neighbours become adjacent,
\* removes the node and its outputs from the graph's owned sets, and
\* leaves the other nodes' inputs, outputs and order alone.
C4_Step ==
  LET n == last'.n
  IN (last'.op = "destroy" /\ inGraphList(Cur, n) /\ ~hasUses(Cur, n)) =>
       /\ last'.ok
       /\ \A i \in Slots(n) :
            Use(n, i) \notin SeqRange(uses'[inputs_[n][i + 1]])
       /\ \A v \in all_values' : uses'[v] = UsesNotBy(uses[v], n)
       /\ next'[prev[n]] = next[n]
       /\ prev'[next[n]] = prev[n]
       /\ all_nodes' = all_nodes \ {n}
       /\ all_values' = all_values \ SeqRange(outputs_[n])
       /\ \A m \in all_nodes \ {n} :
            inputs_'[m] = inputs_[m] /\ outputs_'[m] = outputs_[m]
       /\ ListOrder(Cur') = Without(ListOrder(Cur), n)

C4_Destroy == [][C4_Step]_vars

\* A node has been destroyed; two nodes stay attached and a Value keeps a
\* consumer.
C4_Witness ==
  /\ last.op = "destroy" /\ last.ok
  /\ last.n \notin all_nodes
  /\ Cardinality(Attached) >= 2
  /\ \E v \in all_values : uses[v] # <<>>

\* C5: destroy() on a node with a consumed output fails and changes
\* nothing; on an attached node whose outputs have no consumer (left) it
\* succeeds and the node leaves the graph's owned set.
C5_Step ==
  LET n == last'.n
  IN last'.op = "destroy" =>
       IF \E v \in all_values : node_[v] = n /\ uses[v] # <<>>
       THEN /\ ~last'.ok
            /\ n \in all_nodes'
            /\ UNCHANGED heapVars
       ELSE inGraphList(Cur, n) => (last'.ok /\ n \notin all_nodes')

C5_DestroyPrecondition == [][C5_Step]_vars

\* destroy() has failed on an attached node whose second output is consumed.
C5_Witness ==
  /\ last.op = "destroy" /\ ~last.ok
  /\ last.n \in Attached
  /\ Len(outputs_[last.n]) = 2
  /\ uses[outputs_[last.n][1]] = <<>>
  /\ uses[outputs_[last.n][2]] # <<>>

\* C6: insertAfter and insertBefore succeed exactly when x is detached and
\* n attached, and then attach x; a failing call changes no link.
C6_Step ==
  LET x == last'.n
      n == last'.m
  IN last'.op \in {"insertAfter", "insertBefore"} =>
       /\ last'.ok <=> (~inGraphList(Cur, x) /\ inGraphList(Cur, n))
       /\ last'.ok => inGraphList(Cur', x)
       /\ ~last'.ok => (next' = next /\ prev' = prev)

C6_InsertPrecondition == [][C6_Step]_vars

\* An insertion of an attached node next to another attached node failed.
C6_Witness ==
  /\ last.op \in {"insertAfter", "insertBefore"} /\ ~last.ok
  /\ last.n \in Attached /\ last.m \in Attached /\ last.n # last.m

\* The links of x.insertAfter(a), with s the successor of a before the call,
\* and the order of the other nodes.
C7_Links(x, a, s) ==
  /\ inGraphList(Cur', x)
  /\ next'[a] = x /\ prev'[x] = a /\ next'[x] = s /\ prev'[s] = x
  /\ Without(ListOrder(Cur'), x) = ListOrder(Cur)

\* C7 as claimed: after x.insertAfter(a), x lies between a and the former
\* successor s of a, a is before x, x is not before a, x is before s, and
\* the other nodes keep their order.
C7_OriginalStep ==
  LET x == last'.n
      a == last'.m
      s == next[a]
  IN (last'.op = "insertAfter" /\ last'.ok) =>
       /\ C7_Links(x, a, s)
       /\ isBefore(Cur', a, x)
       /\ ~isBefore(Cur', x, a)
       /\ isBefore(Cur', x, s)

C7_AmendedStep ==
  LET x == last'.n
      a == last'.m
      s == next[a]
  IN (last'.op = "insertAfter" /\ last'.ok) =>
       /\ C7_Links(x, a, s)
       /\ a # output_ => (isBefore(Cur', a, x) /\ ~isBefore(Cur', x, a))
       /\ s # output_ => isBefore(Cur', x, s)
       /\ a = output_ => ListOrder(Cur')[1] = x

C8_Step ==
  LET n == last'.n
      i == last'.i
      w == last'.w
      old == inputs_[n][i + 1]
      dropped == [uses EXCEPT ![old] = Without(@, Use(n, i))]
  IN last'.op = "replaceInput" =>
       /\ last'.ok
       /\ last'.ret = old
       /\ inputs_' = [inputs_ EXCEPT ![n][i + 1] = w]
       /\ Len(uses'[old]) = Len(uses[old]) - (IF old = w THEN 0 ELSE 1)
       /\ uses' = [dropped EXCEPT ![w] = Append(@, Use(n, i))]
       /\ all_values' = all_values /\ all_nodes' = all_nodes
       /\ {old, w} \subseteq all_values'

C8_ReplaceInput == [][C8_Step]_vars

\* replaceInput has put another Value into a slot; the displaced Value
\* keeps consumers, and the new Value had consumers before.
C8_Witness ==
  /\ last.op = "replaceInput" /\ last.ok
  /\ last.ret # last.w
  /\ uses[last.ret] # <<>>
  /\ Len(uses[last.w]) >= 2

\* C9: n.replaceInputWith(from, to) puts to in every slot of n that held
\* from, keeps the other slots and the input count, leaves a Use (n, i) on
\* to for each such slot i and, when from differs from to, no Use by n on
\* from.
C9_Step ==
  LET n == last'.n
      from == last'.v
      to == last'.w
  IN last'.op = "replaceInputWith" =>
       /\ last'.ok
       /\ Len(inputs_'[n]) = Len(inputs_[n])
       /\ \A i \in Slots(n) :
            /\ inputs_[n][i + 1] = from =>
                 /\ inputs_'[n][i + 1] = to
                 /\ Use(n, i) \in SeqRange(uses'[to])
            /\ inputs_[n][i + 1] # from =>
                 inputs_'[n][i + 1] = inputs_[n][i + 1]
       /\ from # to => \A u \in SeqRange(uses'[from]) : u.user # n

C9_ReplaceInputWith == [][C9_Step]_vars

\* replaceInputWith has replaced from in the two slots of a node; from
\* keeps a consumer in another node.
C9_Witness ==
  /\ last.op = "replaceInputWith" /\ last.ok
  /\ last.v # last.w
  /\ inputs_[last.n] = <<last.w, last.w>>
  /\ uses[last.w] = <<Use(last.n, 0), Use(last.n, 1)>>
  /\ uses[last.v] # <<>>

\* A Use list after slot i of node n is removed: the Use (n, i) is gone and
\* every Use (n, j) with j > i is (n, j - 1).
Renumbered(s, n, i) ==
  LET kept == Without(s, Use(n, i))
  IN [k \in 1..Len(kept) |->
        IF kept[k].user = n /\ kept[k].offset > i
        THEN Use(n, kept[k].offset - 1)
        ELSE kept[k]]

\* C10: n.removeInput(i) deletes element i of n's input list, removes the
\* Use (n, i) from that Value's list, rewrites every Use (n, j), j > i, to
\* (n, j - 1), and leaves the Use records of other nodes alone.
C10_Step ==
  LET n == last'.n
      i == last'.i
  IN last'.op = "removeInput" =>
       /\ last'.ok
       /\ inputs_' = [inputs_ EXCEPT ![n] = EraseAt(@, i + 1)]
       /\ \A v \in ValueIds : uses'[v] = Renumbered(uses[v], n, i)
       /\ \A v \in ValueIds :
            UsesNotBy(uses'[v], n) = UsesNotBy(uses[v], n)

C10_RemoveInput == [][C10_Step]_vars

\* removeInput(0) has left a node with the same Value in its two slots,
\* whose Uses were not registered in slot order.
C10_Witness ==
  /\ last.op = "removeInput" /\ last.ok /\ last.i = 0
  /\ Len(inputs_[last.n]) = 2
  /\ inputs_[last.n][1] = inputs_[last.n][2]
  /\ uses[inputs_[last.n][1]] = <<Use(last.n, 1), Use(last.n, 0)>>

\* C11: n.addInput(v) immediately followed by n.removeInput(k), k the number
\* of inputs n had, succeeds and restores n's input list and the consumer
\* list of every Value, records and order.
C11_AddThenRemove ==
  \A n \in LiveOrdinary, v \in all_values :
    LET k == Len(inputs_[n])
        A == addInput(Cur, n, v)
        R == removeInput(A, n, k)
    IN /\ A.ok /\ A.inputs_[n] = Append(inputs_[n], v)
       /\ R.ok
       /\ R.inputs_ = inputs_
       /\ R.uses = uses

\* A node that already consumes v, as does another node, can take v as one
\* more input: the addInput appends a Use to v's list of several, and the
\* removeInput takes that one away.
C11_Witness ==
  \E n \in LiveOrdinary, v \in all_values :
    LET k == Len(inputs_[n])
        A == addInput(Cur, n, v)
        R == removeInput(A, n, k)
    IN /\ k >= 1 /\ v \in SeqRange(inputs_[n])
       /\ \E u \in SeqRange(uses[v]) : u.user # n
       /\ uses[v][Len(uses[v])].user # n
       /\ A.uses[v] = Append(uses[v], Use(n, k))
       /\ R.ok /\ R.uses = uses /\ R.inputs_ = inputs_

\* C12: addInput, replaceInput and replaceInputWith fail when a Value
\* argument belongs to another Graph than the node, and then change no
\* input list and no consumer list; every input of a node belongs to the
\* node's own Graph.
C12_Step ==
  LET n == last'.n
      foreign(v) == graph_[node_[v]] # graph_[n]
  IN /\ last'.op = "addInput" =>
          /\ last'.ok <=> ~foreign(last'.v)
          /\ ~last'.ok => (inputs_' = inputs_ /\ uses' = uses)
     /\ last'.op = "replaceInput" =>
          /\ last'.ok <=> ~foreign(last'.w)
          /\ ~last'.ok => (inputs_' = inputs_ /\ uses' = uses)
     /\ last'.op = "replaceInputWith" =>
          /\ last'.ok <=> ~(foreign(last'.v) \/ foreign(last'.w))
          /\ ~last'.ok => (inputs_' = inputs_ /\ uses' = uses)
     /\ \A m \in all_nodes' : \A v \in SeqRange(inputs_'[m]) :
          v \in all_values' /\ graph_'[node_'[v]] = graph_'[m]

C12_OwnGraphOnly == [][C12_Step]_vars

\* replaceInput with a Value of the other Graph has failed on a node that
\* has inputs, while the foreign Value has consumers in its own Graph.
C12_Witness ==
  /\ last.op = "replaceInput" /\ ~last.ok
  /\ graph_[node_[last.w]] # graph_[last.n]
  /\ inputs_[last.n] # <<>>
  /\ uses[last.w] # <<>>
  /\ uses[inputs_[last.n][last.i + 1]] # <<>>

\* C13: n.replaceAllUsesWith(m) fails and rewires nothing when n and m
\* differ in their number of outputs; with equal numbers no output of n
\* keeps a consumer and every former consumer (u, s) of n's output i has
\* m's output i in slot s.
C13_Step ==
  LET n == last'.n
      m == last'.m
  IN last'.op = "Node_replaceAllUsesWith" =>
       IF Len(outputs_[n]) # Len(outputs_[m])
       THEN ~last'.ok /\ UNCHANGED heapVars
       ELSE /\ last'.ok
            /\ \A k \in 1..Len(outputs_[n]) :
                 /\ uses'[outputs_[n][k]] = <<>>
                 /\ \A u \in SeqRange(uses[outputs_[n][k]]) :
                      inputs_'[u.user][u.offset + 1] = outputs_[m][k]
            /\ outputs_' = outputs_

C13_NodeReplaceAllUses == [][C13_Step]_vars

\* Two nodes of two outputs each: both outputs of the first had consumers,
\* which now consume the outputs of the second, position by position.
C13_Witness ==
  /\ last.op = "Node_replaceAllUsesWith" /\ last.ok
  /\ Len(outputs_[last.n]) = 2 /\ Len(outputs_[last.m]) = 2
  /\ uses[outputs_[last.m][1]] # <<>>
  /\ Len(uses[outputs_[last.m][2]]) >= 2

\* C14: eraseOutput(i) fails when output i has a consumer and otherwise
\* removes output slot i; after any edit the Value at output position j of
\* a node reports that node as its producer and j as its offset.
C14_Step ==
  LET n == last'.n
      i == last'.i
  IN /\ last'.op = "eraseOutput" =>
          IF uses[outputs_[n][i + 1]] # <<>>
          THEN ~last'.ok /\ outputs_' = outputs_ /\ all_values' = all_values
          ELSE /\ last'.ok
               /\ outputs_' = [outputs_ EXCEPT ![n] = EraseAt(@, i + 1)]
     /\ \A m \in all_nodes' : \A j \in 1..Len(outputs_'[m]) :
          /\ outputs_'[m][j] \in all_values'
          /\ node_'[outputs_'[m][j]] = m
          /\ offset_'[outputs_'[m][j]] = j - 1

C14_OutputOffsets == [][C14_Step]_vars

\* The first of two outputs has been erased; the output left, now the
\* first, has a consumer.
C14_Witness ==
  /\ last.op = "eraseOutput" /\ last.ok /\ last.i = 0
  /\ Len(outputs_[last.n]) = 1
  /\ offset_[outputs_[last.n][1]] = 0
  /\ uses[outputs_[last.n][1]] # <<>>

\* C15 as claimed: a live Value reports the same producer node and the same
\* offset after every edit.
C15_OriginalStep ==
  \A v \in all_values \cap all_values' :
    node_'[v] = node_[v] /\ offset_'[v] = offset_[v]

C15_AmendedStep ==
  \A v \in all_values \cap all_values' :
    /\ node_'[v] = node_[v]
    /\ \/ offset_'[v] = offset_[v]
       \/ /\ last'.op = "eraseOutput" /\ last'.ok
          /\ last'.n = node_[v]
          /\ last'.i < offset_[v]
          /\ offset_'[v] = offset_[v] - 1

C16_Step ==
  /\ next_unique_'[TheGraph] >= next_unique_[TheGraph]
  /\ \A v \in all_values : unique_[v] < next_unique_[TheGraph]
  /\ \A v \in all_values \cap all_values' : unique_'[v] = unique_[v]
  /\ \A v \in all_values' \ all_values :
       /\ unique_'[v] >= next_unique_[TheGraph]
       /\ unique_'[v] < next_unique_'[TheGraph]
  /\ \A v, w \in all_values' : unique_'[v] = unique_'[w] => v = w

C16_UniqueIds == [][C16_Step]_vars

\* A Value created after two earlier ones were removed, at an address used
\* before.
C16_Witness ==
  \E v \in all_values :
    /\ unique_[v] >= 2 /\ v = 1
    /\ Cardinality(all_values) = 1
    /\ Cardinality(LiveOrdinary) = 1

\* C17: for attached x and attached n other than x, x.moveAfter(n) leaves
\* x right after n and x.moveBefore(n) right before n; the attached nodes
\* are the same, the other nodes keep their order, and no input list,
\* output list or consumer list changes.
C17_Step ==
  LET x == last'.n
      n == last'.m
  IN (/\ last'.op \in {"moveAfter", "moveBefore"}
      /\ next[x] # NULL /\ next[n] # NULL /\ x # n) =>
       /\ last'.ok
       /\ last'.op = "moveAfter" => (next'[n] = x /\ prev'[x] = n)
       /\ last'.op = "moveBefore" => (next'[x] = n /\ prev'[n] = x)
       /\ {m \in NodeIds : next'[m] # NULL} = {m \in NodeIds : next[m] # NULL}
       /\ Len(ListOrder(Cur')) = Len(ListOrder(Cur))
       /\ Without(ListOrder(Cur'), x) = Without(ListOrder(Cur), x)
       /\ inputs_' = inputs_ /\ outputs_' = outputs_ /\ uses' = uses

C18_Step ==
  LET n == last'.n
  IN last'.op = "removeAllInputs" =>
       /\ last'.ok
       /\ inputs_'[n] = <<>>
       /\ \A v \in ValueIds :
            /\ \A k \in 1..Len(uses'[v]) : uses'[v][k].user # n
            /\ uses'[v] = SelectSeq(uses[v], LAMBDA u : u.user # n)
       /\ \A m \in NodeIds \ {n} : inputs_'[m] = inputs_[m]
       /\ outputs_' = outputs_ /\ next' = next /\ prev' = prev

C18_RemoveAllInputs == [][C18_Step]_vars

\* removeAllInputs has emptied a node, and a Value that the node read
\* before still has a consumer.
C18_Witness ==
  /\ last.op = "removeAllInputs" /\ last.ok
  /\ inputs_[last.n] = <<>>
  /\ \E v \in all_values :
       /\ uses[v] # <<>>
       /\ node_[v] # last.n

\* C19: after t.copyMetadata(f), t has f's element type and f's shape with
\* its presence (has_sizes() of t is has_sizes() of f), and t has f's
\* explicit name if f has one and keeps its own name state otherwise.
C19_Step ==
  LET t == last'.v
      f == last'.w
  IN last'.op = "copyMetadata" =>
       /\ elem_type_'[t] = elem_type_[f]
       /\ has_sizes_'[t] = has_sizes_[f]
       /\ sizes_'[t] = sizes_[f]
       /\ IF has_unique_name_[f]
          THEN has_unique_name_'[t] /\ unique_name_'[t] = unique_name_[f]
          ELSE /\ has_unique_name_'[t] = has_unique_name_[t]
               /\ unique_name_'[t] = unique_name_[t]

C19_CopyMetadata == [][C19_Step]_vars

\* C20: a ResourceGuard on which release() has not been called invokes its
\* cleanup callback exactly once, when it is destroyed and not before; a
\* guard on which release() was called before its destruction never
\* invokes the callback.
C20_ResourceGuard ==
  \A g \in GuardIds :
    /\ lifetime[g] # "destroyed" => invoked_by[g] = 0
    /\ (lifetime[g] = "destroyed" /\ ~release_called[g]) => invoked_by[g] = 1
    /\ (lifetime[g] = "destroyed" /\ release_called[g]) => invoked_by[g] = 0

\* C21: after any sequence of successful insertBefore, insertAfter,
\* moveBefore, moveAfter and destroy calls, every live node is Detached with
\* both links null, or Attached with both links non-null, n.next.prev == n
\* and n.prev.next == n; so the assertion inside inGraphList holds of every
\* node, and the output sentinel, alone in the list or not, has no null
\* link.
C21_Links ==
  /\ \A n \in all_nodes :
       \/ next[n] = NULL /\ prev[n] = NULL
       \/ /\ next[n] # NULL /\ prev[n] # NULL
          /\ next[n] \in all_nodes /\ prev[n] \in all_nodes
          /\ prev[next[n]] = n
          /\ next[prev[n]] = n
  /\ \A n \in all_nodes : next[n] # NULL \/ prev[n] = NULL
  /\ next[output_] # NULL /\ prev[output_] # NULL

\* destroy has left the output sentinel alone in the list, linked to itself,
\* while another live node is Detached.
C21_Witness ==
  /\ last.op = "destroy" /\ last.ok
  /\ next[output_] = output_ /\ prev[output_] = output_
  /\ \E n \in LiveOrdinary : next[n] = NULL /\ prev[n] = NULL

\* C22: a call x.moveAfter(n) or x.moveBefore(n) on an attached x that
\* fails its precondition (n is Detached, or n is x itself) leaves x
\* Attached where it was and every next and prev link unchanged.
C22_Step ==
  LET x == last'.n
      n == last'.m
  IN (/\ last'.op \in {"moveAfter", "moveBefore"}
      /\ next[x] # NULL
      /\ (next[n] = NULL \/ n = x)) =>
       /\ ~last'.ok
       /\ next'[x] # NULL
       /\ next' = next /\ prev' = prev

C22_FailedMove == [][C22_Step]_vars

\* The guards another guard was move-constructed from while they were
\* unreleased and held a callback.
MovedFromGuards == {origin[g] : g \in GuardIds} \ {NULL}

\* C23: when a guard is move-constructed from a guard that was not
\* released, destroying the moved-from guard invokes nothing and does not
\* fail, and the destination guard, neither released nor moved from itself,
\* invokes the callback once when it is destroyed: once in total.
C23_MoveConstructed ==
  /\ \A s \in MovedFromGuards :
       lifetime[s] = "destroyed" => invoked_by[s] = 0 /\ ~terminated
  /\ \A d \in GuardIds :
       (/\ origin[d] # NULL
        /\ d \notin MovedFromGuards
        /\ lifetime[d] = "destroyed"
        /\ ~release_called[d]) => invoked_by[d] = 1

\* C24: in every reachable state the walk along next links from the output
\* sentinel comes back to the sentinel having met every Attached node
\* exactly once, so a traversal of the list ends; and the loops of
\* removeInput, removeAllInputs and replaceInputWith, started on any live
\* node with any arguments, make at most as many iterations as the node has
\* inputs.
C24_Terminates ==
  LET L == Walk(Cur, next[output_], Cardinality(NodeIds))
      end == IF L = <<>> THEN output_ ELSE L[Len(L)]
  IN /\ next[end] = output_
     /\ \A j, k \in 1..Len(L) : L[j] = L[k] => j = k
     /\ {L[k] : k \in 1..Len(L)} =
          {n \in all_nodes \ {output_} : next[n] # NULL}
     /\ \A n \in LiveOrdinary :
          LET size == Len(inputs_[n])
          IN /\ removeAllInputsSteps(Cur, n, 0, size + 1) <= size
             /\ \A i \in 0..(size - 1) :
                  removeInputSteps(dropInput(Cur, n, i), n, i + 1, size + 1)
                    <= size
             /\ \A from \in all_values, to \in all_values :
                  replaceInputWithSteps(Cur, n, from, to, 0, size + 1)
                    <= size

\* Two nodes are in the list and a third live node is not; one node reads
\* the same Value in two slots.
C24_Witness ==
  /\ Cardinality({n \in LiveOrdinary : next[n] # NULL}) >= 2
  /\ \E n \in LiveOrdinary : next[n] = NULL
  /\ \E n \in LiveOrdinary :
       /\ next[n] # NULL
       /\ Len(inputs_[n]) >= 2
       /\ inputs_[n][1] = inputs_[n][2]

====
